---- MODULE Spec2Model ----
(***************************************************************************)
(* Model of the background job processor that setup_ytdl_app.py generates  *)
(* as app_ytdl_simple/tasks.py: the DownloadJob / DownloadStats tables,    *)
(* the ThreadPoolExecutor work queue and its worker threads running        *)
(* _process_job, and the request threads that run job_form, cancel_jobs    *)
(* and retry_failed_jobs.  Every _set call and every transaction.atomic()  *)
(* block is one atomic step; steps of different threads interleave.        *)
(***************************************************************************)
EXTENDS Integers, Sequences, FiniteSets, TLC

\* ---------------------------------------------------------------- bounds
\* job ids; a job with a larger id was created later
Jobs == {1, 2, 3}
Users == {"u1", "u2"}
\* request threads that can be inside cancel_jobs / retry_failed_jobs
Callers == {"c1"}
\* the threads that run the cleanup_old_jobs maintenance task
Cleaners == {"k1"}
\* how many cancel_jobs and retry_failed_jobs calls a behaviour may contain
MaxCalls == 2
\* requested_types values a submitted job may carry
ReqTypeChoices == {{"THUMBNAIL"}, {"MP3", "TRANSCRIPT"}}
\* local percentages the download hook may report
HookPcts == {50}
\* byte sizes a produced file may have
Sizes == {1}
\* requested_types values of the job in the single-job specifications
RunTypeChoices == {{}, {"MP3"}, {"TRANSCRIPT"}, {"THUMBNAIL", "MP4"}}
\* local percentages the download hook may report there
RunHookPcts == {0, 100}
\* every requested_types value job_form can store
AllTypeChoices == SUBSET {"THUMBNAIL", "MP3", "MP4", "TRANSCRIPT"}
\* settings.YT_DL_MAX_RETRIES in the specification of the full pool
PoolRetries == 1

\* ------------------------------------------------------ program constants
YT_DL_MAX_WORKERS == 2
YT_DL_MAX_RETRIES == 3
\* as Workers, with one thread more than max_workers
Workers_more == 1..(YT_DL_MAX_WORKERS + 1)

\* the threads of ThreadPoolExecutor(max_workers=max_workers)
Workers == 1..YT_DL_MAX_WORKERS

PENDING == "PENDING"
RUNNING == "RUNNING"
DONE == "DONE"
ERROR == "ERROR"
RETRYING == "RETRYING"
CANCELLED == "CANCELLED"
Status == {PENDING, RUNNING, DONE, ERROR, RETRYING, CANCELLED}
Terminal == {DONE, ERROR, CANCELLED}
Active == {PENDING, RUNNING, RETRYING}
Retryable == {ERROR, CANCELLED}

VARIABLES
  jobs,      \* DownloadJob table: job id -> record (exists = FALSE: no row yet)
  stats,     \* DownloadStats table: user -> record (exists = FALSE: no row yet)
  queue,     \* work queue of the ThreadPoolExecutor: job ids submitted, not yet started
  wk,        \* worker thread -> its position in _process_job
  call,      \* request thread -> its position in cancel_jobs / retry_failed_jobs
  ncalls,    \* number of cancel and retry calls (views, admin) made so far
  hist       \* history (not program state): what has happened to each job and user

vars == <<jobs, stats, queue, wk, call, ncalls, hist>>

\* ------------------------------------------------------------- the tables
\* a DownloadJob row with the model's field defaults
NewJob(u, types) ==
  [exists |-> TRUE, user |-> u, requested_types |-> types,
   status |-> PENDING, progress_pct |-> 0, message |-> "",
   error_details |-> "", retry_count |-> 0, finished_at |-> FALSE,
   finished_old |-> FALSE, video_id |-> FALSE,
   path_mp3 |-> FALSE, size_mp3 |-> 0,
   path_mp4 |-> FALSE, size_mp4 |-> 0,
   path_txt |-> FALSE, size_txt |-> 0, size_txt_plain |-> 0,
   thumbnail_size |-> 0]

NoJob == [NewJob("u1", {}) EXCEPT !.exists = FALSE]

\* what job.delete() leaves: no row, and an id that is not handed out again
Deleted == [NoJob EXCEPT !.message = "deleted"]

NoStats ==
  [exists |-> FALSE, total_jobs |-> 0, successful_jobs |-> 0,
   failed_jobs |-> 0, total_files_size |-> 0]

\* DownloadJob.file_size_total
file_size_total(r) ==
  r.size_mp3 + r.size_mp4 + r.size_txt + r.size_txt_plain + r.thumbnail_size

\* _set(job, **fields): one atomic read-modify-write of the row.
\* finished_old records that the stored finished_at lies before the cutoff
\* of cleanup_old_jobs; a finished_at written now does not.
_set(tbl, j, fields) ==
  [tbl EXCEPT ![j] = [f \in DOMAIN @ |->
                        IF f \in DOMAIN fields THEN fields[f]
                        ELSE IF f = "finished_old" /\ "finished_at" \in DOMAIN fields
                        THEN FALSE
                        ELSE @[f]]]

Max(a, b) == IF a > b THEN a ELSE b
Min(a, b) == IF a < b THEN a ELSE b

\* as Clamp, but without the upper limit
Clamp_nocap(pct) == Max(0, pct)

\* the clamp of _progress_update
Clamp(pct) == Max(0, Min(99, pct))

\* _progress_update(job, pct, msg)
_progress_update(tbl, j, pct, msg) ==
  _set(tbl, j, [progress_pct |-> Clamp(pct), message |-> msg])

IdleWorker == [pc |-> "idle", job |-> 0, k |-> 0, rc |-> 0, vid |-> FALSE]
IdleCall ==
  [pc |-> "idle", op |-> "none", user |-> "u1", ids |-> {}, snap |-> <<>>,
   sel |-> {}, todo |-> {}, wrote |-> {}, ret |-> 0]

\* touched: cancel_jobs or retry_failed_jobs has written the row;
\* cancelledPending: cancel_jobs found the row PENDING, wrote it while it was
\* still PENDING, and retry_failed_jobs has not reset it since;
\* entered: how many times the status changed to DONE or ERROR;
\* invoked: how many times a worker of this job called _update_user_stats;
\* failures: how many executions of the job have ended in the except branch,
\* counted for a job that no cancel_jobs or retry_failed_jobs call has written
\* (0 once touched);
\* notx: the transcript stage of the latest execution fetched no transcript
NoHist ==
  [touched |-> FALSE, cancelledPending |-> FALSE, entered |-> 0, invoked |-> 0,
   failures |-> 0, notx |-> FALSE]

Init ==
  /\ jobs = [j \in Jobs |-> NoJob]
  /\ stats = [u \in Users |-> NoStats]
  /\ queue = <<>>
  /\ wk = [w \in Workers |-> IdleWorker]
  /\ call = [c \in Callers \cup Cleaners |-> IdleCall]
  /\ ncalls = 0
  /\ hist = [j \in Jobs |-> NoHist]

\* enqueue_job(job_id)
enqueue_job(q, j) == Append(q, j)

\* job_form: create the row in PENDING and enqueue it (ids are handed out in
\* order of creation)
Submit(j, u, types) ==
  /\ jobs[j] = NoJob
  /\ \A i \in Jobs : i < j => jobs[i] # NoJob
  /\ jobs' = [jobs EXCEPT ![j] = NewJob(u, types)]
  /\ queue' = enqueue_job(queue, j)
  /\ UNCHANGED <<stats, wk, call, ncalls, hist>>

\* ------------------------------------------------------------ _process_job
\* as Steps, with the stages appended in the opposite order
Steps_reversed(types) ==
  SelectSeq(<<"TRANSCRIPT", "MP4", "MP3">>, LAMBDA t : t \in types)

\* steps: the requested stages in the order the code appends them
Steps(types) ==
  SelectSeq(<<"MP3", "MP4", "TRANSCRIPT">>, LAMBDA t : t \in types)

\* as AtBase, but cur_base is never advanced
AtBase_first(n, k, d) == 20 + d

\* int(cur_base + d) after k finished stages out of n, where
\* step_weight = 80 / n and cur_base = 20 + k * step_weight
AtBase(n, k, d) == ((20 * n + 80 * k) \div n) + d

\* int(step_weight * 0.9)
NinetyPct(n) == 72 \div n

\* math.floor(pct_local * step_weight / 100)
HookShare(n, pct_local) == (pct_local * 80) \div (100 * n)

\* where the worker goes once the stage it is in is over
AfterStage(w, j) ==
  IF wk[w].k + 1 >= Len(Steps(jobs[j].requested_types))
  THEN [wk[w] EXCEPT !.pc = "stats"]
  ELSE [wk[w] EXCEPT !.pc = "stage", !.k = @ + 1]

\* after metadata and thumbnail: no steps -> finish at once, else first stage
AfterThumb(w, j) ==
  IF Steps(jobs[j].requested_types) = <<>>
  THEN [wk[w] EXCEPT !.pc = "nosteps"]
  ELSE [wk[w] EXCEPT !.pc = "stage", !.k = 0]

\* as Start, but the RUNNING write leaves progress_pct as it is
Start_keepprogress(w) ==
  /\ wk[w].pc = "idle"
  /\ queue # <<>>
  /\ LET j == Head(queue) IN
       /\ queue' = Tail(queue)
       /\ jobs' = _set(jobs, j, [status |-> RUNNING, message |-> "Starting..."])
       /\ wk' = [wk EXCEPT ![w] = [pc |-> "meta", job |-> j, k |-> 0, rc |-> 0,
                                   vid |-> jobs[j].video_id]]
       /\ hist' = [hist EXCEPT ![j].notx = FALSE]
  /\ UNCHANGED <<stats, call, ncalls>>

\* as Start, but also taken by a thread that is inside time.sleep
Start_asleep(w) ==
  /\ wk[w].pc \in {"idle", "sleep"}
  /\ queue # <<>>
  /\ LET j == Head(queue) IN
       /\ queue' = Tail(queue)
       /\ jobs' = _set(jobs, j, [status |-> RUNNING, message |-> "Starting...",
                                 progress_pct |-> 1])
       /\ wk' = [wk EXCEPT ![w] = [pc |-> "meta", job |-> j, k |-> 0, rc |-> 0,
                                   vid |-> jobs[j].video_id]]
       /\ hist' = [hist EXCEPT ![j].notx = FALSE]
  /\ UNCHANGED <<stats, call, ncalls>>

\* a worker thread takes the oldest queued id and enters _process_job:
\* loads the row and writes RUNNING
Start(w) ==
  /\ wk[w].pc = "idle"
  /\ queue # <<>>
  /\ LET j == Head(queue) IN
       /\ queue' = Tail(queue)
       /\ jobs' = _set(jobs, j, [status |-> RUNNING, message |-> "Starting...",
                                 progress_pct |-> 1])
       /\ wk' = [wk EXCEPT ![w] = [pc |-> "meta", job |-> j, k |-> 0, rc |-> 0,
                                   vid |-> jobs[j].video_id]]
       /\ hist' = [hist EXCEPT ![j].notx = FALSE]
  /\ UNCHANGED <<stats, call, ncalls>>

\* _progress_update(job, 5, 'Fetching video information...')
MetaProgress(w) ==
  /\ wk[w].pc = "meta"
  /\ jobs' = _progress_update(jobs, wk[w].job, 5, "Fetching video information...")
  /\ wk' = [wk EXCEPT ![w].pc = "info"]
  /\ UNCHANGED <<stats, queue, call, ncalls, hist>>

\* the failures count of job j after one more failed execution
Failed(j) == IF hist[j].touched THEN 0 ELSE hist[j].failures + 1

\* the except branch: the exception is caught and job.refresh_from_db() runs
Caught(w) == [wk[w] EXCEPT !.pc = "handle", !.rc = jobs[wk[w].job].retry_count]

\* ydl.extract_info succeeds; _extract_metadata stores the metadata (stored)
\* or swallows its own exception (~stored)
ExtractInfoOk(w, stored) ==
  /\ wk[w].pc = "info"
  /\ LET j == wk[w].job IN
       /\ jobs' = IF stored THEN _set(jobs, j, [video_id |-> TRUE]) ELSE jobs
       /\ wk' = [wk EXCEPT ![w] =
                   IF "THUMBNAIL" \in jobs[j].requested_types
                   THEN [@ EXCEPT !.pc = "thumb"]
                   ELSE AfterThumb(w, j)]
  /\ UNCHANGED <<stats, queue, call, ncalls, hist>>

\* ydl.extract_info raises
ExtractInfoFail(w) ==
  /\ wk[w].pc = "info"
  /\ wk' = [wk EXCEPT ![w] = Caught(w)]
  /\ hist' = [hist EXCEPT ![wk[w].job].failures = Failed(wk[w].job)]
  /\ UNCHANGED <<jobs, stats, queue, call, ncalls>>

\* _progress_update(job, 10, 'Downloading thumbnail...')
ThumbProgress(w) ==
  /\ wk[w].pc = "thumb"
  /\ jobs' = _progress_update(jobs, wk[w].job, 10, "Downloading thumbnail...")
  /\ wk' = [wk EXCEPT ![w].pc = "thumbdl"]
  /\ UNCHANGED <<stats, queue, call, ncalls, hist>>

\* _download_thumbnail: stores the size (size > 0) or swallows its failure
ThumbDownload(w, size) ==
  /\ wk[w].pc = "thumbdl"
  /\ LET j == wk[w].job IN
       /\ jobs' = IF size > 0 THEN _set(jobs, j, [thumbnail_size |-> size]) ELSE jobs
       /\ wk' = [wk EXCEPT ![w] = AfterThumb(w, j)]
  /\ UNCHANGED <<stats, queue, call, ncalls, hist>>

\* as NoSteps, but the status is not written
NoSteps_nostatus(w) ==
  /\ wk[w].pc = "nosteps"
  /\ jobs' = _set(jobs, wk[w].job, [progress_pct |-> 100,
                                    message |-> "Completed (no media files requested)",
                                    finished_at |-> TRUE])
  /\ wk' = [wk EXCEPT ![w] = IdleWorker]
  /\ UNCHANGED <<stats, queue, call, ncalls, hist>>

\* if not steps: _set(DONE, 100, ...); return   (no statistics update)
NoSteps(w) ==
  /\ wk[w].pc = "nosteps"
  /\ LET j == wk[w].job IN
       /\ jobs' = _set(jobs, j, [status |-> DONE, progress_pct |-> 100,
                                 message |-> "Completed (no media files requested)",
                                 finished_at |-> TRUE])
       /\ hist' = [hist EXCEPT ![j].entered =
                     IF jobs[j].status # DONE THEN @ + 1 ELSE @]
  /\ wk' = [wk EXCEPT ![w] = IdleWorker]
  /\ UNCHANGED <<stats, queue, call, ncalls>>

\* _progress_update(job, cur_base + 1, 'Preparing ... download...' / 'Fetching transcript...')
Prepare(w) ==
  /\ wk[w].pc = "stage"
  /\ LET j == wk[w].job
         st == Steps(jobs[j].requested_types)
     IN
       /\ jobs' = _progress_update(jobs, j, AtBase(Len(st), wk[w].k, 1), "Preparing...")
       /\ wk' = [wk EXCEPT ![w].pc =
                   IF st[wk[w].k + 1] = "TRANSCRIPT" THEN "tx" ELSE "dl"]
  /\ UNCHANGED <<stats, queue, call, ncalls, hist>>

\* the stage the worker is in: "MP3", "MP4" or "TRANSCRIPT"
StageOf(w) == Steps(jobs[wk[w].job].requested_types)[wk[w].k + 1]
NSteps(w) == Len(Steps(jobs[wk[w].job].requested_types))

\* hook(d), d['status'] == 'downloading'
HookDownloading(w, pct_local) ==
  /\ wk[w].pc = "dl"
  /\ jobs' = _progress_update(jobs, wk[w].job,
               AtBase(NSteps(w), wk[w].k, HookShare(NSteps(w), pct_local)),
               "Downloading")
  /\ UNCHANGED <<stats, queue, wk, call, ncalls, hist>>

\* hook(d), d['status'] == 'finished'
HookFinished(w) ==
  /\ wk[w].pc = "dl"
  /\ jobs' = _progress_update(jobs, wk[w].job,
               AtBase(NSteps(w), wk[w].k, NinetyPct(NSteps(w))),
               "Post-processing...")
  /\ wk' = [wk EXCEPT ![w].pc = "dlend"]
  /\ UNCHANGED <<stats, queue, call, ncalls, hist>>

\* ydl.download returned.  The output file is looked up under the video_id of
\* the row as it was loaded when _process_job began (wk[w].vid), while the
\* file was written under job.video_id or info['id']: the lookup finds the
\* file only if the loaded row already had a video_id.
DownloadOk(w, size) ==
  /\ wk[w].pc \in {"dl", "dlend"}
  /\ LET j == wk[w].job IN
       /\ jobs' = IF ~wk[w].vid THEN jobs
                  ELSE IF StageOf(w) = "MP3"
                       THEN _set(jobs, j, [path_mp3 |-> TRUE, size_mp3 |-> size])
                       ELSE _set(jobs, j, [path_mp4 |-> TRUE, size_mp4 |-> size])
       /\ wk' = [wk EXCEPT ![w] = AfterStage(w, j)]
  /\ UNCHANGED <<stats, queue, call, ncalls, hist>>

\* ydl.download raises
DownloadFail(w) ==
  /\ wk[w].pc \in {"dl", "dlend"}
  /\ wk' = [wk EXCEPT ![w] = Caught(w)]
  /\ hist' = [hist EXCEPT ![wk[w].job].failures = Failed(wk[w].job)]
  /\ UNCHANGED <<jobs, stats, queue, call, ncalls>>

\* _progress_update(job, cur_base + 2, 'Checking available transcripts...')
TxCheck(w) ==
  /\ wk[w].pc = "tx"
  /\ jobs' = _progress_update(jobs, wk[w].job, AtBase(NSteps(w), wk[w].k, 2),
                              "Checking available transcripts...")
  /\ wk' = [wk EXCEPT ![w].pc = "txfetch"]
  /\ UNCHANGED <<stats, queue, call, ncalls, hist>>

\* a transcript was fetched: _progress_update(job, cur_base + 5, 'Found transcript ...')
TxFound(w) ==
  /\ wk[w].pc = "txfetch"
  /\ jobs' = _progress_update(jobs, wk[w].job, AtBase(NSteps(w), wk[w].k, 5),
                              "Found transcript")
  /\ wk' = [wk EXCEPT ![w].pc = "txwrite"]
  /\ UNCHANGED <<stats, queue, call, ncalls, hist>>

\* as TxNone, but the exception reaches the except branch of _process_job
TxNone_fatal(w) ==
  /\ wk[w].pc = "txfetch"
  /\ wk' = [wk EXCEPT ![w] = Caught(w)]
  /\ hist' = [hist EXCEPT ![wk[w].job].notx = TRUE]
  /\ UNCHANGED <<jobs, stats, queue, call, ncalls>>

\* no transcript in any language, or the API raised: only the message changes
TxNone(w) ==
  /\ wk[w].pc = "txfetch"
  /\ LET j == wk[w].job IN
       /\ jobs' = _set(jobs, j, [message |-> "Unable to fetch transcript for this video."])
       /\ wk' = [wk EXCEPT ![w] = AfterStage(w, j)]
       /\ hist' = [hist EXCEPT ![j].notx = TRUE]
  /\ UNCHANGED <<stats, queue, call, ncalls>>

\* the two transcript files are written and their paths and sizes stored
TxSave(w, size) ==
  /\ wk[w].pc = "txwrite"
  /\ jobs' = _set(jobs, wk[w].job, [path_txt |-> TRUE, size_txt |-> size,
                                    size_txt_plain |-> size])
  /\ wk' = [wk EXCEPT ![w].pc = "txsaved"]
  /\ UNCHANGED <<stats, queue, call, ncalls, hist>>

\* writing the files raised: caught inside the stage, only the message changes
TxSaveFail(w) ==
  /\ wk[w].pc = "txwrite"
  /\ LET j == wk[w].job IN
       /\ jobs' = _set(jobs, j, [message |-> "Transcript error"])
       /\ wk' = [wk EXCEPT ![w] = AfterStage(w, j)]
  /\ UNCHANGED <<stats, queue, call, ncalls, hist>>

\* _progress_update(job, cur_base + int(step_weight * 0.9), 'Transcript saved ...')
TxSaved(w) ==
  /\ wk[w].pc = "txsaved"
  /\ LET j == wk[w].job IN
       /\ jobs' = _progress_update(jobs, j,
                    AtBase(NSteps(w), wk[w].k, NinetyPct(NSteps(w))), "Transcript saved")
       /\ wk' = [wk EXCEPT ![w] = AfterStage(w, j)]
  /\ UNCHANGED <<stats, queue, call, ncalls, hist>>

\* ------------------------------------------------------ _update_user_stats
\* sum of file_size_total over the user's DONE jobs
RECURSIVE SumDone(_, _, _)
SumDone(tbl, u, S) ==
  IF S = {} THEN 0
  ELSE LET j == CHOOSE x \in S : TRUE IN
         (IF tbl[j].exists /\ tbl[j].user = u /\ tbl[j].status = DONE
          THEN file_size_total(tbl[j]) ELSE 0) + SumDone(tbl, u, S \ {j})

\* as get_or_create, but a row is stored even if the user has one
get_or_create_anew(st, u) == [st EXCEPT ![u] = [NoStats EXCEPT !.exists = TRUE]]

\* DownloadStats.objects.get_or_create(user=user): user is a OneToOneField,
\* so of the callers that find no row one creates it and the others get it
get_or_create(st, u) ==
  IF st[u].exists THEN st ELSE [st EXCEPT ![u] = [NoStats EXCEPT !.exists = TRUE]]

\* as _update_user_stats, but a failure is not counted in failed_jobs
_update_user_stats_uncounted(st, tbl, u, success) ==
  [st EXCEPT ![u] =
     [exists |-> TRUE,
      total_jobs |-> @.total_jobs + 1,
      successful_jobs |-> IF success THEN @.successful_jobs + 1 ELSE @.successful_jobs,
      failed_jobs |-> @.failed_jobs,
      total_files_size |-> SumDone(tbl, u, Jobs)]]

\* the transaction.atomic() block of _update_user_stats: under
\* select_for_update, the counters and the rescan of the user's DONE jobs
_update_user_stats(st, tbl, u, success) ==
  [st EXCEPT ![u] =
     [exists |-> TRUE,
      total_jobs |-> @.total_jobs + 1,
      successful_jobs |-> IF success THEN @.successful_jobs + 1 ELSE @.successful_jobs,
      failed_jobs |-> IF success THEN @.failed_jobs ELSE @.failed_jobs + 1,
      total_files_size |-> SumDone(tbl, u, Jobs)]]

\* all stages are over: _update_user_stats(job.user, success=True) is called
\* and runs get_or_create
CallStatsSuccess(w) ==
  /\ wk[w].pc = "stats"
  /\ stats' = get_or_create(stats, jobs[wk[w].job].user)
  /\ wk' = [wk EXCEPT ![w].pc = "statsupd"]
  /\ hist' = [hist EXCEPT ![wk[w].job].invoked = @ + 1]
  /\ UNCHANGED <<jobs, queue, call, ncalls>>

\* the atomic block of _update_user_stats(job.user, success=True)
StatsSuccess(w) ==
  /\ wk[w].pc = "statsupd"
  /\ stats' = _update_user_stats(stats, jobs, jobs[wk[w].job].user, TRUE)
  /\ wk' = [wk EXCEPT ![w].pc = "done"]
  /\ UNCHANGED <<jobs, queue, call, ncalls, hist>>

\* as SetDone, but retry_count is written back to 0
SetDone_resetcount(w) ==
  /\ wk[w].pc = "done"
  /\ LET j == wk[w].job IN
       /\ jobs' = _set(jobs, j, [status |-> DONE, progress_pct |-> 100,
                                 message |-> "Download completed successfully",
                                 retry_count |-> 0, finished_at |-> TRUE])
       /\ hist' = [hist EXCEPT ![j].entered =
                     IF jobs[j].status # DONE THEN @ + 1 ELSE @]
  /\ wk' = [wk EXCEPT ![w] = IdleWorker]
  /\ UNCHANGED <<stats, queue, call, ncalls>>

\* _set(job, status=DONE, progress_pct=100, ..., finished_at=now)
SetDone(w) ==
  /\ wk[w].pc = "done"
  /\ LET j == wk[w].job IN
       /\ jobs' = _set(jobs, j, [status |-> DONE, progress_pct |-> 100,
                                 message |-> "Download completed successfully",
                                 finished_at |-> TRUE])
       /\ hist' = [hist EXCEPT ![j].entered =
                     IF jobs[j].status # DONE THEN @ + 1 ELSE @]
  /\ wk' = [wk EXCEPT ![w] = IdleWorker]
  /\ UNCHANGED <<stats, queue, call, ncalls>>

\* as SetRetrying, but incrementing the stored retry_count instead of
\* writing the value read by job.refresh_from_db() plus one
SetRetrying_relative(w, max_retries) ==
  /\ wk[w].pc = "handle"
  /\ wk[w].rc < max_retries
  /\ jobs' = _set(jobs, wk[w].job, [status |-> RETRYING, progress_pct |-> 0,
                                    message |-> "Retrying",
                                    error_details |-> "error_msg",
                                    retry_count |-> jobs[wk[w].job].retry_count + 1])
  /\ wk' = [wk EXCEPT ![w].pc = "sleep"]
  /\ UNCHANGED <<stats, queue, call, ncalls, hist>>

\* as SetRetrying, but with retry_count <= max_retries as the test
SetRetrying_le(w, max_retries) ==
  /\ wk[w].pc = "handle"
  /\ wk[w].rc <= max_retries
  /\ jobs' = _set(jobs, wk[w].job, [status |-> RETRYING, progress_pct |-> 0,
                                    message |-> "Retrying",
                                    error_details |-> "error_msg",
                                    retry_count |-> wk[w].rc + 1])
  /\ wk' = [wk EXCEPT ![w].pc = "sleep"]
  /\ UNCHANGED <<stats, queue, call, ncalls, hist>>

\* if job.retry_count < max_retries: _set(RETRYING, 0, ..., retry_count + 1)
SetRetrying(w, max_retries) ==
  /\ wk[w].pc = "handle"
  /\ wk[w].rc < max_retries
  /\ jobs' = _set(jobs, wk[w].job, [status |-> RETRYING, progress_pct |-> 0,
                                    message |-> "Retrying",
                                    error_details |-> "error_msg",
                                    retry_count |-> wk[w].rc + 1])
  /\ wk' = [wk EXCEPT ![w].pc = "sleep"]
  /\ UNCHANGED <<stats, queue, call, ncalls, hist>>

\* as Resubmit, but without enqueue_job(job_id)
Resubmit_lost(w) ==
  /\ wk[w].pc = "sleep"
  /\ wk' = [wk EXCEPT ![w] = IdleWorker]
  /\ UNCHANGED <<jobs, stats, queue, call, ncalls, hist>>

\* time.sleep(retry_delay) is over: enqueue_job(job_id), and the worker is free
Resubmit(w) ==
  /\ wk[w].pc = "sleep"
  /\ queue' = enqueue_job(queue, wk[w].job)
  /\ wk' = [wk EXCEPT ![w] = IdleWorker]
  /\ UNCHANGED <<jobs, stats, call, ncalls, hist>>

\* as CallStatsFailure, but taken one failed execution earlier
CallStatsFailure_early(w, max_retries) ==
  /\ wk[w].pc = "handle"
  /\ ~(wk[w].rc + 1 < max_retries)
  /\ stats' = get_or_create(stats, jobs[wk[w].job].user)
  /\ wk' = [wk EXCEPT ![w].pc = "failstats"]
  /\ hist' = [hist EXCEPT ![wk[w].job].invoked = @ + 1]
  /\ UNCHANGED <<jobs, queue, call, ncalls>>

\* else: _update_user_stats(job.user, success=False) is called and runs
\* get_or_create
CallStatsFailure(w, max_retries) ==
  /\ wk[w].pc = "handle"
  /\ ~(wk[w].rc < max_retries)
  /\ stats' = get_or_create(stats, jobs[wk[w].job].user)
  /\ wk' = [wk EXCEPT ![w].pc = "failstats"]
  /\ hist' = [hist EXCEPT ![wk[w].job].invoked = @ + 1]
  /\ UNCHANGED <<jobs, queue, call, ncalls>>

\* the atomic block of _update_user_stats(job.user, success=False)
StatsFailure(w) ==
  /\ wk[w].pc = "failstats"
  /\ stats' = _update_user_stats(stats, jobs, jobs[wk[w].job].user, FALSE)
  /\ wk' = [wk EXCEPT ![w].pc = "error"]
  /\ UNCHANGED <<jobs, queue, call, ncalls, hist>>

\* as SetError, but saving the object loaded when the execution started
SetError_stale(w) ==
  /\ wk[w].pc = "error"
  /\ LET j == wk[w].job IN
       /\ jobs' = _set(jobs, j, [status |-> ERROR, progress_pct |-> 100,
                                 message |-> "Failed",
                                 error_details |-> "error_msg",
                                 finished_at |-> TRUE,
                                 video_id |-> wk[w].vid])
       /\ hist' = [hist EXCEPT ![j].entered =
                     IF jobs[j].status # ERROR THEN @ + 1 ELSE @]
  /\ wk' = [wk EXCEPT ![w] = IdleWorker]
  /\ UNCHANGED <<stats, queue, call, ncalls>>

\* _set(job, status=ERROR, progress_pct=100, ..., finished_at=now)
SetError(w) ==
  /\ wk[w].pc = "error"
  /\ LET j == wk[w].job IN
       /\ jobs' = _set(jobs, j, [status |-> ERROR, progress_pct |-> 100,
                                 message |-> "Failed",
                                 error_details |-> "error_msg",
                                 finished_at |-> TRUE])
       /\ hist' = [hist EXCEPT ![j].entered =
                     IF jobs[j].status # ERROR THEN @ + 1 ELSE @]
  /\ wk' = [wk EXCEPT ![w] = IdleWorker]
  /\ UNCHANGED <<stats, queue, call, ncalls>>

\* _process_job of a job that requests a stage: max_retries is
\* getattr(settings, 'YT_DL_MAX_RETRIES', 3), pcts the local percentages the
\* download hook may report
Worker(w, max_retries, pcts) ==
  \/ Start(w)
  \/ MetaProgress(w)
  \/ \E stored \in BOOLEAN : ExtractInfoOk(w, stored)
  \/ ExtractInfoFail(w)
  \/ ThumbProgress(w)
  \/ \E size \in Sizes \cup {0} : ThumbDownload(w, size)
  \/ NoSteps(w)
  \/ Prepare(w)
  \/ \E p \in pcts : HookDownloading(w, p)
  \/ HookFinished(w)
  \/ \E size \in Sizes : DownloadOk(w, size)
  \/ DownloadFail(w)
  \/ TxCheck(w)
  \/ TxFound(w)
  \/ TxNone(w)
  \/ \E size \in Sizes : TxSave(w, size)
  \/ TxSaveFail(w)
  \/ TxSaved(w)
  \/ CallStatsSuccess(w)
  \/ StatsSuccess(w)
  \/ SetDone(w)
  \/ SetRetrying(w, max_retries)
  \/ Resubmit(w)
  \/ CallStatsFailure(w, max_retries)
  \/ StatsFailure(w)
  \/ SetError(w)

\* the steps of _process_job that a job with requested_types = "" can take
\* when settings.YT_DL_MAX_RETRIES = 0 (a failed execution is final) and the
\* fetched metadata is well-formed
WorkerNoMedia(w) ==
  \/ Start(w)
  \/ MetaProgress(w)
  \/ ExtractInfoOk(w, TRUE)
  \/ ExtractInfoFail(w)
  \/ NoSteps(w)
  \/ CallStatsFailure(w, 0)
  \/ StatsFailure(w)
  \/ SetError(w)

\* the steps of _process_job that jobs with requested_types "" and "MP3" can
\* take when settings.YT_DL_MAX_RETRIES = PoolRetries and the fetched
\* metadata is well-formed
WorkerPool(w) ==
  \/ Start(w)
  \/ MetaProgress(w)
  \/ ExtractInfoOk(w, TRUE)
  \/ ExtractInfoFail(w)
  \/ NoSteps(w)
  \/ Prepare(w)
  \/ \E p \in RunHookPcts : HookDownloading(w, p)
  \/ HookFinished(w)
  \/ \E size \in Sizes : DownloadOk(w, size)
  \/ DownloadFail(w)
  \/ CallStatsSuccess(w)
  \/ StatsSuccess(w)
  \/ SetDone(w)
  \/ SetRetrying(w, PoolRetries)
  \/ Resubmit(w)
  \/ CallStatsFailure(w, PoolRetries)
  \/ StatsFailure(w)
  \/ SetError(w)

\* ------------------------------------------- cancel_jobs, retry_failed_jobs
Newest(S) == CHOOSE j \in S : \A i \in S : i <= j

\* as Filter, but without the user=user condition
Filter_anyuser(u, ids, wanted) ==
  {j \in ids : jobs[j].exists /\ jobs[j].status \in wanted}

\* DownloadJob.objects.filter(user=user, id__in=job_ids, status__in=wanted),
\* evaluated when the for loop starts; Meta.ordering is newest first
Filter(u, ids, wanted) ==
  {j \in ids : jobs[j].exists /\ jobs[j].user = u /\ jobs[j].status \in wanted}

\* a request thread enters op(user, job_ids) and evaluates the queryset
BeginCall(c, op, u, ids, wanted) ==
  /\ call[c].pc = "idle"
  /\ LET sel == Filter(u, ids, wanted) IN
       call' = [call EXCEPT ![c] =
                  [pc |-> IF sel = {} THEN "ret" ELSE "loop",
                   op |-> op, user |-> u, ids |-> ids,
                   snap |-> [j \in ids |-> IF jobs[j].exists THEN jobs[j].status
                                                              ELSE "none"],
                   sel |-> sel, todo |-> sel, wrote |-> {}, ret |-> 0]]
  /\ UNCHANGED <<jobs, stats, queue, wk, hist>>

\* after the loop body for job j: next job, or return len(jobs)
Looped(c, j) ==
  [call[c] EXCEPT !.todo = @ \ {j}, !.wrote = @ \cup {j},
                  !.pc = IF call[c].todo = {j} THEN "ret" ELSE "loop",
                  !.ret = IF call[c].todo = {j} THEN Cardinality(call[c].sel) ELSE 0]

\* as cancel_jobs, but without the status__in condition
cancel_jobs_anystatus(c, u, ids) ==
  /\ ncalls < MaxCalls
  /\ ncalls' = ncalls + 1
  /\ BeginCall(c, "cancel", u, ids, Status)

cancel_jobs(c, u, ids) ==
  /\ ncalls < MaxCalls
  /\ ncalls' = ncalls + 1
  /\ BeginCall(c, "cancel", u, ids, Active)

\* loop body of cancel_jobs: _set(job, status=CANCELLED, progress_pct=100, ...)
CancelStep(c) ==
  /\ call[c].pc = "loop"
  /\ call[c].op = "cancel"
  /\ LET j == Newest(call[c].todo) IN
       /\ jobs' = _set(jobs, j, [status |-> CANCELLED, progress_pct |-> 100,
                                 message |-> "Cancelled by user",
                                 finished_at |-> TRUE])
       /\ call' = [call EXCEPT ![c] = Looped(c, j)]
       /\ hist' = [hist EXCEPT ![j].touched = TRUE,
                               ![j].cancelledPending =
                                  (call[c].snap[j] = PENDING /\ jobs[j].status = PENDING),
                               ![j].failures = 0]
  /\ UNCHANGED <<stats, queue, wk, ncalls>>

retry_failed_jobs(c, u, ids) ==
  /\ ncalls < MaxCalls
  /\ ncalls' = ncalls + 1
  /\ BeginCall(c, "retry", u, ids, Retryable)

\* as RetryStep, but retry_count is not reset
RetryStep_keepcount(c) ==
  /\ call[c].pc = "loop"
  /\ call[c].op = "retry"
  /\ LET j == Newest(call[c].todo) IN
       /\ jobs' = _set(jobs, j, [status |-> PENDING, progress_pct |-> 0,
                                 message |-> "Queued for retry",
                                 error_details |-> "",
                                 finished_at |-> FALSE])
       /\ queue' = enqueue_job(queue, j)
       /\ call' = [call EXCEPT ![c] = Looped(c, j)]
       /\ hist' = [hist EXCEPT ![j].touched = TRUE,
                               ![j].cancelledPending = FALSE,
                               ![j].failures = 0]
  /\ UNCHANGED <<stats, wk, ncalls>>

\* loop body of retry_failed_jobs: _set(job, status=PENDING, ...), then
\* enqueue_job(str(job.id)).  No other thread can act on the new queue entry
\* before it exists, so the two are one step.
RetryStep(c) ==
  /\ call[c].pc = "loop"
  /\ call[c].op = "retry"
  /\ LET j == Newest(call[c].todo) IN
       /\ jobs' = _set(jobs, j, [status |-> PENDING, progress_pct |-> 0,
                                 message |-> "Queued for retry",
                                 error_details |-> "", retry_count |-> 0,
                                 finished_at |-> FALSE])
       /\ queue' = enqueue_job(queue, j)
       /\ call' = [call EXCEPT ![c] = Looped(c, j)]
       /\ hist' = [hist EXCEPT ![j].touched = TRUE,
                               ![j].cancelledPending = FALSE,
                               ![j].failures = 0]
  /\ UNCHANGED <<stats, wk, ncalls>>

\* the call returns call[c].ret to the view
Return(c) ==
  /\ call[c].pc = "ret"
  /\ call' = [call EXCEPT ![c] = IdleCall]
  /\ UNCHANGED <<jobs, stats, queue, wk, ncalls, hist>>

\* the request threads, given the job_ids lists the views may pass
Requests(idlists) ==
  \/ \E c \in Callers, u \in Users, ids \in idlists : cancel_jobs(c, u, ids)
  \/ \E c \in Callers : CancelStep(c)
  \/ \E c \in Callers, u \in Users, ids \in idlists : retry_failed_jobs(c, u, ids)
  \/ \E c \in Callers : RetryStep(c)
  \/ \E c \in Callers : Return(c)

\* ------------------------------------------------- _set, statement by statement
\* the threads that may be inside _set at the same time
SetThreads == Callers \cup Cleaners

\* keyword arguments of _set calls in tasks.py: _extract_metadata,
\* _progress_update, the video stage, cancel_jobs
SetFieldChoices ==
  {[video_id |-> TRUE],
   [progress_pct |-> 50, message |-> "Downloading"],
   [path_mp4 |-> TRUE, size_mp4 |-> 1],
   [status |-> CANCELLED, progress_pct |-> 100,
    message |-> "Cancelled by user", finished_at |-> TRUE]}

\* as RowLocked, for a plain .get(pk=job.pk) that takes no row lock
RowLocked_never(t, j) == FALSE

\* another transaction holds the row lock of job j
RowLocked(t, j) ==
  \E u \in SetThreads \ {t} :
    call[u].op = "set" /\ call[u].pc \in {"locked", "saved"} /\ call[u].ids = {j}

\* thread t calls _set(job, **fields): transaction.atomic() is entered
SetBegin(t, j, fields) ==
  /\ call[t].pc = "idle"
  /\ jobs[j].exists
  /\ call' = [call EXCEPT ![t] =
                [IdleCall EXCEPT !.pc = "wait", !.op = "set", !.ids = {j},
                                 !.snap = [fields |-> fields, row |-> NoJob]]]
  /\ UNCHANGED <<jobs, stats, queue, wk, ncalls, hist>>

\* j = DownloadJob.objects.select_for_update().get(pk=job.pk): waits for the
\* row lock, takes it and loads the committed row
SetLock(t) ==
  /\ call[t].op = "set"
  /\ call[t].pc = "wait"
  /\ \E j \in call[t].ids :
       /\ ~RowLocked(t, j)
       /\ call' = [call EXCEPT ![t].pc = "locked", ![t].snap.row = jobs[j]]
  /\ UNCHANGED <<jobs, stats, queue, wk, ncalls, hist>>

\* setattr(j, k, v) for each field, then j.save(): every column of the
\* loaded object is written inside the transaction
SetSave(t) ==
  /\ call[t].op = "set"
  /\ call[t].pc = "locked"
  /\ call' = [call EXCEPT ![t].pc = "saved",
                          ![t].snap.row =
                             _set([i \in {0} |-> @], 0, call[t].snap.fields)[0]]
  /\ UNCHANGED <<jobs, stats, queue, wk, ncalls, hist>>

\* the atomic block ends: the transaction commits, the written row becomes
\* visible to the other threads and the row lock is released
SetCommit(t) ==
  /\ call[t].op = "set"
  /\ call[t].pc = "saved"
  /\ \E j \in call[t].ids : jobs' = [jobs EXCEPT ![j] = call[t].snap.row]
  /\ call' = [call EXCEPT ![t] = IdleCall]
  /\ UNCHANGED <<stats, queue, wk, ncalls, hist>>

\* ------------------------------------------------------------ admin actions
\* DownloadJobAdmin.retry_selected_jobs: the queryset of the selected rows in
\* ERROR or CANCELLED is evaluated when the for loop starts; snap holds the
\* rows as loaded
retry_selected_jobs(c, ids) ==
  /\ ncalls < MaxCalls
  /\ ncalls' = ncalls + 1
  /\ call[c].pc = "idle"
  /\ LET sel == {j \in ids : jobs[j].exists /\ jobs[j].status \in Retryable} IN
       call' = [call EXCEPT ![c] =
                  [IdleCall EXCEPT !.pc = IF sel = {} THEN "ret" ELSE "loop",
                                   !.op = "adminretry", !.ids = ids,
                                   !.snap = [j \in sel |-> jobs[j]],
                                   !.sel = sel, !.todo = sel]]
  /\ UNCHANGED <<jobs, stats, queue, wk, hist>>

\* loop body of retry_selected_jobs: four attributes of the loaded object
\* are set, job.save() writes every column of it, enqueue_job(str(job.id))
AdminRetryStep(c) ==
  /\ call[c].pc = "loop"
  /\ call[c].op = "adminretry"
  /\ LET j == Newest(call[c].todo) IN
       /\ jobs' = [jobs EXCEPT ![j] =
                     [call[c].snap[j] EXCEPT
                        !.status = PENDING, !.progress_pct = 0,
                        !.message = "Queued for retry (admin action)",
                        !.retry_count = 0]]
       /\ queue' = enqueue_job(queue, j)
       /\ call' = [call EXCEPT ![c] = Looped(c, j)]
       /\ hist' = [hist EXCEPT ![j].touched = TRUE,
                               ![j].cancelledPending = FALSE,
                               ![j].failures = 0]
  /\ UNCHANGED <<stats, wk, ncalls>>

\* DownloadJobAdmin.cancel_selected_jobs: one UPDATE of the selected rows in
\* PENDING, RUNNING or RETRYING
cancel_selected_jobs(ids) ==
  /\ ncalls < MaxCalls
  /\ ncalls' = ncalls + 1
  /\ LET sel == {j \in ids : jobs[j].exists /\ jobs[j].status \in Active} IN
       /\ jobs' = [j \in Jobs |->
                     IF j \in sel
                     THEN [jobs[j] EXCEPT !.status = CANCELLED,
                                          !.progress_pct = 100,
                                          !.message = "Cancelled by admin"]
                     ELSE jobs[j]]
       /\ hist' = [j \in Jobs |->
                     IF j \in sel
                     THEN [hist[j] EXCEPT !.touched = TRUE,
                                          !.cancelledPending = (jobs[j].status = PENDING),
                                          !.failures = 0]
                     ELSE hist[j]]
  /\ UNCHANGED <<stats, queue, wk, call>>

\* ---------------------------------------------------------- cleanup_old_jobs
\* time passes: the finished_at of job j now lies before the cutoff
TimePasses(j) ==
  /\ jobs[j].exists /\ jobs[j].finished_at /\ ~jobs[j].finished_old
  /\ jobs' = [jobs EXCEPT ![j].finished_old = TRUE]
  /\ UNCHANGED <<stats, queue, wk, call, ncalls, hist>>

\* DownloadJob.objects.filter(finished_at__lt=cutoff_date,
\*                            status__in=[DONE, ERROR])
OldJobs ==
  {j \in Jobs : /\ jobs[j].exists
                /\ jobs[j].finished_at /\ jobs[j].finished_old
                /\ jobs[j].status \in {DONE, ERROR}}

\* a thread enters cleanup_old_jobs; the queryset is evaluated when the for
\* loop starts
cleanup_old_jobs(k) ==
  /\ call[k].pc = "idle"
  /\ call' = [call EXCEPT ![k] =
                [IdleCall EXCEPT !.pc = IF OldJobs = {} THEN "ret" ELSE "loop",
                                 !.op = "cleanup",
                                 !.sel = OldJobs, !.todo = OldJobs]]
  /\ UNCHANGED <<jobs, stats, queue, wk, ncalls, hist>>

\* after the loop body of cleanup_old_jobs for job j
Cleaned(k, j, n) ==
  [call[k] EXCEPT !.todo = @ \ {j},
                  !.pc = IF call[k].todo = {j} THEN "ret" ELSE "loop",
                  !.ret = @ + n]

\* loop body of cleanup_old_jobs: the files are removed, job.delete(),
\* deleted_count += 1
CleanupStep(k) ==
  /\ call[k].pc = "loop"
  /\ call[k].op = "cleanup"
  /\ LET j == Newest(call[k].todo) IN
       /\ jobs' = [jobs EXCEPT ![j] = Deleted]
       /\ call' = [call EXCEPT ![k] = Cleaned(k, j, 1)]
  /\ UNCHANGED <<stats, queue, wk, ncalls, hist>>

\* loop body of cleanup_old_jobs when shutil.rmtree raises: the exception is
\* printed and the row stays
CleanupStepFail(k) ==
  /\ call[k].pc = "loop"
  /\ call[k].op = "cleanup"
  /\ call' = [call EXCEPT ![k] = Cleaned(k, Newest(call[k].todo), 0)]
  /\ UNCHANGED <<jobs, stats, queue, wk, ncalls, hist>>

\* loop body of retry_failed_jobs while cleanup_old_jobs may run: _set
\* raises DownloadJob.DoesNotExist for a deleted row and the call ends
RetryStepOrGone(c) ==
  /\ call[c].pc = "loop"
  /\ call[c].op = "retry"
  /\ IF jobs[Newest(call[c].todo)].exists
     THEN RetryStep(c)
     ELSE /\ call' = [call EXCEPT ![c] = IdleCall]
          /\ UNCHANGED <<jobs, stats, queue, wk, ncalls, hist>>

\* a worker takes the id of a deleted row: DownloadJob.objects.get raises
\* DoesNotExist before the try block and the task ends
StartGone(w) ==
  /\ wk[w].pc = "idle"
  /\ queue # <<>>
  /\ ~jobs[Head(queue)].exists
  /\ queue' = Tail(queue)
  /\ UNCHANGED <<jobs, stats, wk, call, ncalls, hist>>

\* the row of the job worker w executes was deleted: the next _set raises
\* DoesNotExist, job.refresh_from_db() in the except branch raises it again
\* and the task ends
RowGone(w) ==
  /\ wk[w].pc \in {"meta", "info", "nosteps", "error"}
  /\ ~jobs[wk[w].job].exists
  /\ wk' = [wk EXCEPT ![w] = IdleWorker]
  /\ UNCHANGED <<jobs, stats, queue, call, ncalls, hist>>

\* WorkerNoMedia while cleanup_old_jobs may run
WorkerCleanup(w) ==
  \/ /\ queue # <<>> /\ jobs[Head(queue)].exists
     /\ Start(w)
  \/ StartGone(w)
  \/ /\ wk[w].pc # "idle" /\ jobs[wk[w].job].exists
     /\ \/ MetaProgress(w)
        \/ ExtractInfoOk(w, TRUE)
        \/ ExtractInfoFail(w)
        \/ NoSteps(w)
        \/ SetError(w)
  \/ RowGone(w)
  \/ CallStatsFailure(w, 0)
  \/ StatsFailure(w)

\* ----------------------------------------------------------- specifications
\* Spec: one job of user u1 with any requested_types (u2 is another user),
\* the default pool and retry settings
Next ==
  \/ \E t \in ReqTypeChoices : Submit(1, "u1", t)
  \/ \E w \in Workers : Worker(w, YT_DL_MAX_RETRIES, HookPcts)
  \/ Requests({{1}})

Spec == Init /\ [][Next]_vars

\* SpecJobs: two jobs that request no media, the first of user u1, the second
\* of u1 or u2; YT_DL_MAX_RETRIES = 0
NextJobs ==
  \/ Submit(1, "u1", {})
  \/ \E u \in Users : Submit(2, u, {})
  \/ \E w \in Workers : WorkerNoMedia(w)
  \/ Requests({{1}, {2}, {1, 2}})

SpecJobs == Init /\ [][NextJobs]_vars

\* SpecRun: one job of user u1 and no cancel_jobs or retry_failed_jobs call
NextRun ==
  \/ \E t \in RunTypeChoices : Submit(1, "u1", t)
  \/ \E w \in Workers : Worker(w, YT_DL_MAX_RETRIES, RunHookPcts)

SpecRun == Init /\ [][NextRun]_vars

\* SpecSet: one job and two threads that call _set on it, with _set taken
\* statement by statement
NextSet ==
  \/ Submit(1, "u1", {"MP4"})
  \/ \E t \in SetThreads, f \in SetFieldChoices : SetBegin(t, 1, f)
  \/ \E t \in SetThreads : SetLock(t)
  \/ \E t \in SetThreads : SetSave(t)
  \/ \E t \in SetThreads : SetCommit(t)

SpecSet == Init /\ [][NextSet]_vars

\* SpecAdmin: one job that requests no media, YT_DL_MAX_RETRIES = 0, the
\* calls of the views and the admin actions on it
NextAdmin ==
  \/ Submit(1, "u1", {})
  \/ \E w \in Workers : WorkerNoMedia(w)
  \/ Requests({{1}})
  \/ \E c \in Callers : retry_selected_jobs(c, {1})
  \/ \E c \in Callers : AdminRetryStep(c)
  \/ cancel_selected_jobs({1})

SpecAdmin == Init /\ [][NextAdmin]_vars

\* SpecCleanup: two jobs of user u1 that request no media,
\* YT_DL_MAX_RETRIES = 0, retry_failed_jobs calls and the cleanup task
NextCleanup ==
  \/ \E j \in Jobs \ {3} : Submit(j, "u1", {})
  \/ \E w \in Workers : WorkerCleanup(w)
  \/ \E c \in Callers, ids \in {{1}, {1, 2}} : retry_failed_jobs(c, "u1", ids)
  \/ \E c \in Callers : RetryStepOrGone(c)
  \/ \E j \in Jobs : TimePasses(j)
  \/ \E k \in Cleaners : cleanup_old_jobs(k)
  \/ \E k \in Cleaners : CleanupStep(k)
  \/ \E k \in Cleaners : CleanupStepFail(k)
  \/ \E c \in Callers \cup Cleaners : Return(c)

SpecCleanup == Init /\ [][NextCleanup]_vars

\* SpecStages: as SpecRun, with every combination of requested outputs
NextStages ==
  \/ \E t \in AllTypeChoices : Submit(1, "u1", t)
  \/ \E w \in Workers : Worker(w, YT_DL_MAX_RETRIES, RunHookPcts)

SpecStages == Init /\ [][NextStages]_vars

\* SpecCancel: as SpecRun, with cancel_jobs calls on the job
NextCancel ==
  \/ \E t \in RunTypeChoices : Submit(1, "u1", t)
  \/ \E w \in Workers : Worker(w, YT_DL_MAX_RETRIES, RunHookPcts)
  \/ \E c \in Callers, u \in Users : cancel_jobs(c, u, {1})
  \/ \E c \in Callers : CancelStep(c)
  \/ \E c \in Callers : Return(c)

SpecCancel == Init /\ [][NextCancel]_vars

\* SpecPool: three jobs of user u1, more than the pool has workers: the first
\* requests MP3, the others nothing; no cancel_jobs or retry_failed_jobs call
NextPool ==
  \/ Submit(1, "u1", {"MP3"})
  \/ \E j \in Jobs \ {1} : Submit(j, "u1", {})
  \/ \E w \in Workers : WorkerPool(w)

SpecPool == Init /\ [][NextPool]_vars

\* a worker thread that can take a step eventually takes one, and a blocking
\* ydl.download call eventually returns or raises
Fairness ==
  \A w \in Workers :
    /\ WF_vars(WorkerPool(w))
    /\ WF_vars((\E size \in Sizes : DownloadOk(w, size)) \/ DownloadFail(w))

SpecFair == SpecPool /\ Fairness

\* ------------------------------------------------------------- properties
Existing == {j \in Jobs : jobs[j].exists}
\* the workers that are inside _process_job(j), sleeping in the backoff included
WorkersOn(j) == {w \in Workers : wk[w].pc # "idle" /\ wk[w].job = j}
InQueue(j) == \E i \in 1..Len(queue) : queue[i] = j

\* C1: in every reachable state, progress_pct = 100 exactly when the status is
\* DONE, ERROR or CANCELLED
C1_FullIffTerminal ==
  \A j \in Existing : (jobs[j].progress_pct = 100) <=> (jobs[j].status \in Terminal)

\* C2: every user's statistics satisfy total_jobs = successful_jobs + failed_jobs
C2_StatsBalance ==
  \A u \in Users :
    stats[u].total_jobs = stats[u].successful_jobs + stats[u].failed_jobs

\* C2 witness: a user has both a successful and a failed job on record
C2_Witness ==
  \E u \in Users : stats[u].successful_jobs >= 1 /\ stats[u].failed_jobs >= 1

\* C3: a job that reached ERROR with no cancel or retry call having touched it
\* has retry_count = max_retries and is neither queued nor being executed
C3_ExhaustedRetries ==
  \A j \in Existing :
    (jobs[j].status = ERROR /\ ~hist[j].touched) =>
      /\ jobs[j].retry_count = YT_DL_MAX_RETRIES
      /\ ~InQueue(j)
      /\ WorkersOn(j) = {}

\* C3 witness: a job that failed on every execution is in ERROR
C3_Witness ==
  \E j \in Existing :
    jobs[j].status = ERROR /\ ~hist[j].touched /\ hist[j].invoked = 1

\* C4: once cancel_jobs has cancelled a PENDING job, the job stays CANCELLED
\* with progress 100 until retry_failed_jobs resets it
C4_CancelledPendingStays ==
  \A j \in Existing :
    hist[j].cancelledPending =>
      jobs[j].status = CANCELLED /\ jobs[j].progress_pct = 100

\* the status changes of the state machine
AllowedChange(from, to) ==
  \/ from = PENDING /\ to = RUNNING
  \/ from = RUNNING /\ to \in {DONE, RETRYING, ERROR}
  \/ from = RETRYING /\ to = RUNNING
  \/ from \in Active /\ to = CANCELLED
  \/ from \in Retryable /\ to = PENDING

\* C5: every change of a job's status is a transition of the state machine
C5_OnlyAllowedChanges ==
  [][\A j \in Jobs :
       (jobs[j].exists /\ jobs'[j].status # jobs[j].status)
         => AllowedChange(jobs[j].status, jobs'[j].status)]_vars

\* C6: at most one worker is inside _process_job for a given job
C6_SingleWorkerPerJob ==
  \A j \in Jobs : Cardinality(WorkersOn(j)) <= 1

\* the positions between the call of _update_user_stats and the status write
\* that follows it
StatsToStatus == {"statsupd", "done", "failstats", "error"}

\* C7: outside the steps that join a statistics update to its status
\* write, a job has entered DONE or ERROR exactly as often as
\* _update_user_stats was invoked for it
C7_OneUpdatePerOutcome ==
  \A j \in Existing :
    (\A w \in WorkersOn(j) : wk[w].pc \notin StatsToStatus)
      => hist[j].invoked = hist[j].entered

\* the listed jobs of the caller's user that had one of the wanted statuses
\* when the call evaluated its queryset
Eligible(r, wanted) ==
  {j \in r.ids : r.snap[j] \in wanted /\ jobs[j].user = r.user}

\* the job a loop step of request thread c has just handled
Handled(c) == CHOOSE j \in Jobs : j \in call'[c].wrote \ call[c].wrote

\* C8: a cancel_jobs call changes no listed job that was DONE, ERROR or
\* CANCELLED when the call began, whatever the workers do meanwhile, and its
\* return value does not count such a job
C8_CancelSkipsTerminal ==
  [][\A c \in Callers :
       LET was == {j \in call[c].ids : call[c].snap[j] \in Terminal} IN
         (call[c].op = "cancel" /\ call[c].pc = "loop" /\ call'[c] # call[c]) =>
           /\ \A j \in was : jobs'[j] = jobs[j]
           /\ call'[c].wrote \cap was = {}
           /\ call'[c].pc = "ret" =>
                call'[c].ret <= Cardinality(call[c].ids \ was)]_vars

\* C8 witness: a cancel_jobs call has returned 1 for two listed jobs, one of
\* which was terminal when the call began
C8_Witness ==
  \E c \in Callers :
    /\ call[c].op = "cancel" /\ call[c].pc = "ret"
    /\ call[c].ret = 1 /\ Cardinality(call[c].ids) = 2
    /\ \E j \in call[c].ids : call[c].snap[j] \in Terminal

Ended(j) == jobs[j].exists /\ jobs[j].status # PENDING /\ ~InQueue(j) /\ WorkersOn(j) = {}

\* C11: a job that requested only MP3 and whose first execution ended without
\* a failure (metadata fetch and download succeeded) is DONE with progress
\* 100, path_mp3 set and size_mp3 > 0
C11_AudioStored ==
  \A j \in Existing :
    (jobs[j].requested_types = {"MP3"} /\ Ended(j)
       /\ hist[j].failures = 0 /\ ~hist[j].touched)
      => /\ jobs[j].status = DONE
         /\ jobs[j].progress_pct = 100
         /\ jobs[j].path_mp3
         /\ jobs[j].size_mp3 > 0

\* the positions of a worker inside or after the audio, video and transcript
\* stages
ProducerPcs ==
  {"stage", "dl", "dlend", "tx", "txfetch", "txwrite", "txsaved",
   "stats", "statsupd", "done"}

\* no path and no size of an output file is stored in row r
NoArtifacts(r) ==
  ~r.path_mp3 /\ ~r.path_mp4 /\ ~r.path_txt /\ file_size_total(r) = 0

\* C12 as claimed: a job with an empty requested_types that no call has
\* written never runs the audio, video or transcript stage, has no artifact
\* field set, is never RETRYING or ERROR, and is DONE with progress 100 once
\* it has been executed
C12_EmptyAlwaysDone ==
  \A j \in Existing :
    (jobs[j].requested_types = {} /\ ~hist[j].touched) =>
      /\ \A w \in WorkersOn(j) : wk[w].pc \notin ProducerPcs
      /\ NoArtifacts(jobs[j])
      /\ jobs[j].status \notin {RETRYING, ERROR}
      /\ Ended(j) => jobs[j].status = DONE /\ jobs[j].progress_pct = 100

\* C12 amended: a job with an empty requested_types that no call has written
\* never runs the audio, video or transcript stage and has no artifact field
\* set; it is RETRYING or ERROR only after a metadata fetch of it has failed,
\* and once executed it is DONE with progress 100, or ERROR after
\* max_retries + 1 failed metadata fetches
C12_EmptyDoneUnlessFetchFails ==
  \A j \in Existing :
    (jobs[j].requested_types = {} /\ ~hist[j].touched) =>
      /\ \A w \in WorkersOn(j) : wk[w].pc \notin ProducerPcs
      /\ NoArtifacts(jobs[j])
      /\ jobs[j].status \in {RETRYING, ERROR} => hist[j].failures > 0
      /\ Ended(j) =>
           \/ jobs[j].status = DONE /\ jobs[j].progress_pct = 100
           \/ jobs[j].status = ERROR /\ hist[j].failures = YT_DL_MAX_RETRIES + 1

\* C12 witness: a job with an empty requested_types is DONE after one
\* execution in which the metadata fetch succeeded
C12_Witness ==
  \E j \in Existing :
    /\ jobs[j].requested_types = {} /\ ~hist[j].touched
    /\ Ended(j) /\ jobs[j].status = DONE /\ hist[j].failures = 0

\* C13: with max_retries = 3 and no cancel or retry call, a job whose first
\* two executions failed and whose third execution did not is DONE with
\* retry_count = 2
C13_DoneAfterTwoFailures ==
  \A j \in Existing :
    (Ended(j) /\ hist[j].failures = 2 /\ ~hist[j].touched) =>
      jobs[j].status = DONE /\ jobs[j].retry_count = 2

\* C13 witness: an MP3 job is DONE after two failed executions and a third
\* that succeeded
C13_Witness ==
  \E j \in Existing :
    /\ jobs[j].requested_types = {"MP3"} /\ ~hist[j].touched
    /\ Ended(j) /\ hist[j].failures = 2 /\ jobs[j].status = DONE

\* C14: whenever no job of a user is held by a worker, the user's
\* total_files_size is the sum of file_size_total over the user's DONE jobs
C14_SizeMatchesDoneJobs ==
  \A u \in Users :
    (\A j \in Existing : jobs[j].user = u => WorkersOn(j) = {})
      => stats[u].total_files_size = SumDone(jobs, u, Jobs)

\* C15: a write to a row that is RUNNING before and after it does not lower
\* progress_pct
C15_ProgressNeverDrops ==
  [][\A j \in Jobs :
       (jobs[j].exists /\ jobs[j].status = RUNNING /\ jobs'[j].status = RUNNING)
         => jobs'[j].progress_pct >= jobs[j].progress_pct]_vars

\* C16: after every step each row has progress_pct in 0..100, a RUNNING row
\* has it in 0..99, and a row that was written and holds 100 has a terminal
\* status
C16_ProgressRange ==
  [][\A j \in Jobs :
       jobs'[j].exists =>
         /\ jobs'[j].progress_pct \in 0..100
         /\ jobs'[j].status = RUNNING => jobs'[j].progress_pct \in 0..99
         /\ (jobs'[j] # jobs[j] /\ jobs'[j].progress_pct = 100)
              => jobs'[j].status \in Terminal]_vars

\* C16 witness: the hook has reported a finished last stage and the clamp
\* has kept the RUNNING row at 99
C16_Witness ==
  \E j \in Existing : jobs[j].status = RUNNING /\ jobs[j].progress_pct = 99

\* C17: under fair scheduling and with no cancel call, again and again every
\* job that has been created is DONE or ERROR and has left the pool: each
\* enqueued job is eventually finished, none stays RUNNING or RETRYING
C17_EveryJobFinishes ==
  []<>(\A j \in Existing : jobs[j].status \in {DONE, ERROR} /\ Ended(j))

\* C17 witness: all three jobs have left the pool, one of them DONE after a
\* failed execution and one of them in ERROR
C17_Witness ==
  /\ \A j \in Jobs : Ended(j)
  /\ \E j \in Jobs : jobs[j].status = DONE /\ hist[j].failures > 0
  /\ \E j \in Jobs : jobs[j].status = ERROR

\* the jobs that a worker is executing (a worker in time.sleep included)
Executing == {j \in Jobs : WorkersOn(j) # {}}

RECURSIVE Invocations(_, _)
Invocations(u, S) ==
  IF S = {} THEN 0
  ELSE LET j == CHOOSE x \in S : TRUE IN
         (IF jobs[j].exists /\ jobs[j].user = u THEN hist[j].invoked ELSE 0)
           + Invocations(u, S \ {j})

\* the workers inside _update_user_stats for user u, before its atomic block
InStats(u) ==
  {w \in Workers : wk[w].pc \in {"statsupd", "failstats"}
                     /\ jobs[wk[w].job].user = u}

\* C19: a user's total_jobs is the number of _update_user_stats calls made
\* for the user minus those still before their atomic block, so after N
\* calls have completed total_jobs = N
C19_NoLostUpdate ==
  \A u \in Users :
    stats[u].total_jobs = Invocations(u, Jobs) - Cardinality(InStats(u))

\* C19 witness: two workers are inside _update_user_stats for the same user
\* at once, after an earlier call for that user has completed
C19_Witness ==
  \E u \in Users : Cardinality(InStats(u)) = 2 /\ stats[u].total_jobs = 1

\* C20: when the transcript stage of a TRANSCRIPT-only job has fetched no
\* transcript, no transcript path is stored, retry_count is still the number
\* of earlier failed executions, the job stays RUNNING and is DONE with
\* progress 100 once the worker has returned
C20_NoTranscriptNotFatal ==
  \A j \in Existing :
    (jobs[j].requested_types = {"TRANSCRIPT"} /\ hist[j].notx /\ ~hist[j].touched) =>
      /\ ~jobs[j].path_txt
      /\ jobs[j].retry_count = hist[j].failures
      /\ jobs[j].status \in {RUNNING, DONE}
      /\ WorkersOn(j) = {} => jobs[j].status = DONE /\ jobs[j].progress_pct = 100

\* C20 witness: a TRANSCRIPT-only job whose transcript stage fetched nothing
\* is DONE
C20_Witness ==
  \E j \in Existing :
    /\ jobs[j].requested_types = {"TRANSCRIPT"} /\ hist[j].notx
    /\ Ended(j) /\ jobs[j].status = DONE

\* the positions of a worker inside the audio, video or transcript stage
StagePcs == {"stage", "dl", "dlend", "tx", "txfetch", "txwrite", "txsaved"}

\* where worker record r stands in the fixed order of one execution:
\* 0 metadata, 1 thumbnail, 2 audio, 3 video, 4 transcript, 5 completion,
\* 6 the except branch
StageRank(r, types) ==
  CASE r.pc \in {"meta", "info"} -> 0
    [] r.pc \in {"thumb", "thumbdl"} -> 1
    [] r.pc \in StagePcs ->
         LET st == Steps(types)[r.k + 1] IN
           IF st = "MP3" THEN 2 ELSE IF st = "MP4" THEN 3 ELSE 4
    [] r.pc \in {"nosteps", "stats", "statsupd", "done"} -> 5
    [] OTHER -> 6

\* a step of worker w inside one execution keeps the fixed order: the
\* position never goes back, a stage that starts is a requested one and
\* later in the order than the position before, and nothing follows the
\* except branch
OrderedStep(w) ==
  LET types == jobs[wk[w].job].requested_types
      old == StageRank(wk[w], types)
      new == StageRank(wk'[w], types)
  IN (wk[w].pc # "idle" /\ wk'[w].pc # "idle" /\ wk'[w] # wk[w]) =>
       /\ new >= old
       /\ wk'[w].pc \in {"thumb", "stage"} => new > old
       /\ new = 1 => "THUMBNAIL" \in types
       /\ new \in {2, 3} => wk'[w].pc \in {"stage", "dl", "dlend"}
       /\ new = 2 => "MP3" \in types
       /\ new = 3 => "MP4" \in types
       /\ new = 4 => "TRANSCRIPT" \in types /\ wk'[w].pc \notin {"dl", "dlend"}

\* the thumbnail download of the execution worker w is in has failed
ThumbFailed(w) ==
  /\ wk[w].pc \notin {"idle", "meta", "info", "thumb", "thumbdl"}
  /\ "THUMBNAIL" \in jobs[wk[w].job].requested_types
  /\ jobs[wk[w].job].thumbnail_size = 0

C22_DeletesOnlyOldFinished ==
  /\ [][\A j \in Jobs :
          (jobs[j].exists /\ jobs'[j] = Deleted) =>
            /\ jobs[j].status \in {DONE, ERROR}
            /\ jobs[j].finished_at /\ jobs[j].finished_old]_vars
  /\ [](\A k \in Cleaners :
          (call[k].pc = "ret" /\ call[k].op = "cleanup") =>
            call[k].ret = Cardinality({j \in call[k].sel : jobs[j] = Deleted}))

\* the except branch of an execution of job j has not written the row yet
Handling(j) == \E w \in Workers : wk[w].job = j /\ wk[w].pc = "handle"

\* C23 as claimed: retry_count is the number of failed executions of the job,
\* the one that moves it to ERROR included, so that a job in ERROR has failed
\* max_retries times
C23_CountsEveryFailure ==
  \A j \in Existing :
    (~hist[j].touched /\ ~Handling(j)) =>
      /\ jobs[j].retry_count = hist[j].failures
      /\ jobs[j].status = ERROR => hist[j].failures = YT_DL_MAX_RETRIES

\* C23 amended: retry_count is the number of failed executions that were
\* answered with a retry; the failed execution that moves the job to ERROR
\* does not increment it, so a job in ERROR has failed max_retries + 1 times
\* and holds retry_count = max_retries
C23_CountsRetries ==
  \A j \in Existing :
    (~hist[j].touched /\ ~Handling(j)) =>
      /\ jobs[j].retry_count = Min(hist[j].failures, YT_DL_MAX_RETRIES)
      /\ jobs[j].status = ERROR =>
           /\ hist[j].failures = YT_DL_MAX_RETRIES + 1
           /\ jobs[j].retry_count = YT_DL_MAX_RETRIES

\* C23 witness: a job is in ERROR after max_retries + 1 failed executions
C23_Witness ==
  \E j \in Existing :
    /\ jobs[j].status = ERROR /\ ~Handling(j)
    /\ hist[j].failures = YT_DL_MAX_RETRIES + 1

\* C24 as claimed: finished_at is null exactly while the status is PENDING,
\* RUNNING or RETRYING
C24_FinishedAtMatchesStatus ==
  \A j \in Existing : jobs[j].finished_at <=> jobs[j].status \in Terminal

\* thread t is inside the atomic block of a _set call on job j
InSet(t, j) == call[t].op = "set" /\ call[t].pc # "idle" /\ call[t].ids = {j}

\* C25: every _set call is an atomic read-modify-write of the row: whenever
\* the row changes, the change is the whole field list of one _set call
\* applied to the row as it was just before, so that the fields a concurrent
\* _set call has written are kept and no reader sees a part of the list
C25_SetIsAtomic ==
  [][\A j \in Jobs :
       (jobs[j].exists /\ jobs'[j] # jobs[j]) =>
         \E t \in SetThreads :
           /\ InSet(t, j) /\ call'[t].pc = "idle"
           /\ jobs' = _set(jobs, j, call[t].snap.fields)]_vars

\* C25 witness: the row holds the video fields one _set call has written
\* while a second _set call has saved other fields and a third waits for
\* the row lock
C25_Witness ==
  \E t, u \in SetThreads :
    /\ call[t].op = "set" /\ call[t].pc = "saved"
    /\ call[u].op = "set" /\ call[u].pc = "wait"
    /\ call[t].snap.fields = [video_id |-> TRUE]
    /\ call[u].snap.fields # call[t].snap.fields
    /\ jobs[1].path_mp4

\* worker w is inside time.sleep(retry_delay)
InBackoff(w) == wk[w].pc = "sleep"

\* C26: a worker in the retry backoff starts no other job: its only step is
\* the end of the sleep, which puts the failed job at the back of the
\* backlog (the job is not queued before); while every worker is in backoff
\* no job enters RUNNING
C26_BackoffHoldsWorker ==
  /\ [][/\ \A w \in Workers :
             InBackoff(w) =>
               \/ wk'[w] = wk[w] /\ ~InQueue(wk[w].job)'
               \/ /\ wk'[w] = IdleWorker
                  /\ queue' = Append(queue, wk[w].job)
        /\ (\A w \in Workers : InBackoff(w)) =>
             \A j \in Jobs : jobs'[j].status = RUNNING => jobs[j].status = RUNNING]_vars
  /\ [](\A w \in Workers : InBackoff(w) => ~InQueue(wk[w].job))

\* C26 witness: every worker is in backoff while a job waits in the queue
C26_Witness ==
  /\ \A w \in Workers : InBackoff(w)
  /\ queue # <<>>
  /\ jobs[Head(queue)].status = PENDING

\* the slice of the k-th of n requested stages, rounded down and capped at 99
SliceLow(n, k) == (20 * n + 80 * k) \div n
SliceHigh(n, k) == Min(99, (20 * n + 80 * (k + 1)) \div n)

FailureFields ==
  {"status", "progress_pct", "message", "error_details", "retry_count",
   "finished_at", "finished_old"}

\* C28: the writes of the except branch, which move the job to RETRYING or
\* ERROR, change no column other than status, progress_pct, message,
\* error_details, retry_count and finished_at: the metadata stored earlier
\* in the execution stays as it is
C28_FailureKeepsMetadata ==
  [][\A w \in Workers :
       (wk[w].pc \in {"handle", "error"} /\ wk'[w] # wk[w]) =>
         LET j == wk[w].job IN
           /\ \A f \in DOMAIN jobs[j] \ FailureFields : jobs'[j][f] = jobs[j][f]
           /\ jobs'[j].status \in {RETRYING, ERROR} => jobs'[j].video_id = jobs[j].video_id]_vars

\* C28 witness: a job whose metadata was stored in this execution (the
\* worker loaded the row without it) is RETRYING after a failed download and
\* still holds the metadata
C28_Witness ==
  \E w \in Workers :
    /\ wk[w].pc = "sleep" /\ ~wk[w].vid
    /\ jobs[wk[w].job].status = RETRYING
    /\ jobs[wk[w].job].video_id
    /\ jobs[wk[w].job].requested_types = {"MP4"}

\* C29: retry_count stays within 0 .. max_retries, also when two workers
\* execute the same job and when cancel and retry calls interleave with a
\* failing execution
C29_RetryCountBounded ==
  \A j \in Existing :
    jobs[j].retry_count >= 0 /\ jobs[j].retry_count <= YT_DL_MAX_RETRIES

\* C29 witness: two workers are in the except branch of the same job, both
\* after re-reading the row, and the job has used some of its retries
C29_Witness ==
  \E w, v \in Workers :
    /\ w # v /\ wk[w].job = wk[v].job
    /\ wk[w].pc = "handle" /\ wk[v].pc = "handle"
    /\ jobs[wk[w].job].retry_count > 0

\* C30: a row with progress_pct = 100 has a terminal status: the write that
\* makes a status non-terminal leaves progress_pct below 100, and the write
\* that makes progress_pct 100 leaves a terminal status
C30_FullImpliesTerminal ==
  /\ [](\A j \in Existing : jobs[j].progress_pct = 100 => jobs[j].status \in Terminal)
  /\ [][\A j \in Jobs :
          jobs'[j].exists =>
            /\ (jobs'[j].status # jobs[j].status /\ jobs'[j].status \notin Terminal)
                 => jobs'[j].progress_pct < 100
            /\ (jobs'[j].progress_pct # jobs[j].progress_pct /\ jobs'[j].progress_pct = 100)
                 => jobs'[j].status \in Terminal]_vars

\* C30 witness: a worker has started a job that was cancelled while queued:
\* the row that held CANCELLED and 100 is RUNNING with progress 1
C30_Witness ==
  \E j \in Existing :
    jobs[j].status = RUNNING /\ jobs[j].finished_at /\ jobs[j].progress_pct = 1
====
